---- MODULE Spec2Model ----
(***************************************************************************)
(* A model of the quiz-chain solver: the /solve endpoint (main.py), the    *)
(* chain controller, the submission-endpoint resolver, the answer-solving  *)
(* strategy and the submission client (solver.py), with the renderer       *)
(* (browser.py) and the oracle (llm_client.py) as fallible collaborators.  *)
(*                                                                         *)
(* Python strings are sequences of one-character strings, so that prefix   *)
(* tests, regular-expression searches, rstrip and urljoin are computed.    *)
(* Python's None is the value NONE, which is no sequence of characters.    *)
(***************************************************************************)
EXTENDS Integers, Sequences, FiniteSets, TLC

\* ------------------------------------------------------------------------
\* Python values
\* ------------------------------------------------------------------------

\* None.  Every character of a modelled string has length 1, so NONE differs
\* from every string, the empty string <<>> included.
NONE == <<"None">>

\* bool(v) for v a string or None: `if next_url:`, `if not submit_url:`.
Truthy(v) == v # NONE /\ v # <<>>

UpperCase == <<"A","B","C","D","E","F","G","H","I","J","K","L","M",
               "N","O","P","Q","R","S","T","U","V","W","X","Y","Z">>

LowerCase == <<"a","b","c","d","e","f","g","h","i","j","k","l","m",
               "n","o","p","q","r","s","t","u","v","w","x","y","z">>

Digits == <<"0","1","2","3","4","5","6","7","8","9">>

IsAlpha(ch) == \E k \in 1..26 : UpperCase[k] = ch \/ LowerCase[k] = ch

IsDigit(ch) == \E k \in 1..10 : Digits[k] = ch

\* str.lower() on one character
lowerch(ch) ==
    IF \E k \in 1..26 : UpperCase[k] = ch
    THEN LowerCase[CHOOSE k \in 1..26 : UpperCase[k] = ch]
    ELSE ch

\* str.lower()
lower(s) == [k \in 1..Len(s) |-> lowerch(s[k])]

\* The characters the regular-expression class \s matches (ASCII subset).
Whitespace == {" ", "\t", "\n", "\r"}

\* str.startswith(prefix)
startswith(s, prefix) ==
    /\ Len(s) >= Len(prefix)
    /\ SubSeq(s, 1, Len(prefix)) = prefix

\* str.rstrip(chars): remove every trailing character that is in chars
RECURSIVE rstrip(_, _)
rstrip(s, chars) ==
    IF s # <<>> /\ s[Len(s)] \in chars
    THEN rstrip(SubSeq(s, 1, Len(s) - 1), chars)
    ELSE s

\* The literal lit occurs in s at position i (case-sensitive).
MatchLit(s, i, lit) ==
    /\ i >= 1
    /\ i + Len(lit) - 1 <= Len(s)
    /\ \A k \in 1..Len(lit) : s[i + k - 1] = lit[k]

\* The literal lit occurs in s at position i under re.IGNORECASE.
MatchLitCI(s, i, lit) ==
    /\ i >= 1
    /\ i + Len(lit) - 1 <= Len(s)
    /\ \A k \in 1..Len(lit) : lowerch(s[i + k - 1]) = lowerch(lit[k])

\* `sub in s`
Contains(s, sub) == \E i \in 1..(Len(s) + 1) : MatchLit(s, i, sub)

\* First index >= i of s holding a character of chars; Len(s)+1 if none.
FirstIn(s, i, chars) ==
    CHOOSE e \in i..(Len(s) + 1) :
        /\ \A k \in i..(e - 1) : s[k] \notin chars
        /\ e = Len(s) + 1 \/ s[e] \in chars

\* First index >= i of s holding a character outside chars; Len(s)+1 if none.
FirstNotIn(s, i, chars) ==
    CHOOSE e \in i..(Len(s) + 1) :
        /\ \A k \in i..(e - 1) : s[k] \in chars
        /\ e = Len(s) + 1 \/ s[e] \notin chars

\* str.split(sep) for a one-character separator
RECURSIVE split(_, _)
split(s, sep) ==
    LET e == FirstIn(s, 1, {sep})
    IN  IF e = Len(s) + 1
        THEN << s >>
        ELSE << SubSeq(s, 1, e - 1) >> \o split(SubSeq(s, e + 1, Len(s)), sep)

\* sep.join(parts)
RECURSIVE join(_, _)
join(parts, sep) ==
    IF parts = <<>> THEN <<>>
    ELSE IF Len(parts) = 1 THEN parts[1]
    ELSE parts[1] \o sep \o join(Tail(parts), sep)

\* ------------------------------------------------------------------------
\* urllib.parse.urljoin, as solver.py imports it (line 7): the URL is parsed
\* into scheme, netloc, path, params, query and fragment (urlparse), joined
\* with the parsed base, and put together again (urlunparse), which leaves
\* out an empty params, query or fragment with its delimiter.  The modelled
\* URLs carry no embedded whitespace.
\* ------------------------------------------------------------------------

IsSchemeChar(ch) == IsAlpha(ch) \/ IsDigit(ch) \/ ch \in {"+", "-", "."}

\* urlsplit: the scheme is what precedes the first ':' when that prefix
\* starts with a letter and holds only scheme characters.
HasScheme(url) ==
    LET c == FirstIn(url, 1, {":"})
    IN  /\ c <= Len(url)
        /\ c > 1
        /\ IsAlpha(url[1])
        /\ \A k \in 1..(c - 1) : IsSchemeChar(url[k])

\* s.split(ch, 1)[0], and s.split(ch, 1)[1] when ch occurs in s, else ''
Before(s, ch) == SubSeq(s, 1, FirstIn(s, 1, {ch}) - 1)

After(s, ch) == SubSeq(s, FirstIn(s, 1, {ch}) + 1, Len(s))

\* urlsplit: what follows the netloc is split at the first '#' into the
\* fragment, and what precedes it at the first '?' into the query.
SplitTail(scheme, netloc, tail) ==
    [ scheme   |-> scheme,
      netloc   |-> netloc,
      path     |-> Before(Before(tail, "#"), "?"),
      query    |-> After(Before(tail, "#"), "?"),
      fragment |-> After(tail, "#") ]

\* urlsplit after the scheme: a rest that starts with "//" holds the netloc
\* up to the next delimiter at ne, and the path after it.
SplitNetloc(scheme, rest, ne) ==
    SplitTail(scheme, SubSeq(rest, 3, ne - 1), SubSeq(rest, ne, Len(rest)))

SplitRest(scheme, rest) ==
    IF startswith(rest, <<"/","/">>)
    THEN SplitNetloc(scheme, rest, FirstIn(rest, 3, {"/", "?", "#"}))
    ELSE SplitTail(scheme, <<>>, rest)

SplitAt(url, colon, default_scheme) ==
    IF HasScheme(url)
    THEN SplitRest(lower(SubSeq(url, 1, colon - 1)),
                   SubSeq(url, colon + 1, Len(url)))
    ELSE SplitRest(default_scheme, url)

urlsplit(url, default_scheme) ==
    SplitAt(url, FirstIn(url, 1, {":"}), default_scheme)

\* The schemes of urllib.parse.uses_relative / uses_netloc / uses_params
\* that the model meets: the base URL of every join is an http or https
\* URL.
uses_relative == { <<>>, <<"h","t","t","p">>, <<"h","t","t","p","s">>,
                   <<"f","t","p">>, <<"f","i","l","e">> }

uses_netloc == uses_relative

uses_params == uses_relative \ { <<"f","i","l","e">> }

\* url.rfind('/'), counted from 1; 1 when the path has no '/'
LastSlash(path) ==
    IF \E k \in 1..Len(path) : path[k] = "/"
    THEN CHOOSE k \in 1..Len(path) :
             /\ path[k] = "/"
             /\ \A j \in (k + 1)..Len(path) : path[j] # "/"
    ELSE 1

\* _splitparams: the position of the ';' that starts the params of the
\* last segment of the path; Len(path)+1 when there is none
ParamsAt(scheme, path) ==
    IF scheme \in uses_params
    THEN FirstIn(path, LastSlash(path), {";"})
    ELSE Len(path) + 1

\* urlparse: urlsplit, and the params taken off the path
WithParams(u) ==
    [ scheme   |-> u.scheme,
      netloc   |-> u.netloc,
      path     |-> SubSeq(u.path, 1, ParamsAt(u.scheme, u.path) - 1),
      params   |-> SubSeq(u.path, ParamsAt(u.scheme, u.path) + 1,
                          Len(u.path)),
      query    |-> u.query,
      fragment |-> u.fragment ]

urlparse(url, default_scheme) == WithParams(urlsplit(url, default_scheme))

urlunsplit(scheme, netloc, path) ==
    LET withNet ==
            IF netloc # <<>>
               \/ (scheme # <<>> /\ scheme \in uses_netloc
                   /\ ~startswith(path, <<"/","/">>))
            THEN <<"/","/">> \o netloc
                 \o (IF path # <<>> /\ path[1] # "/" THEN <<"/">> ELSE <<>>)
                 \o path
            ELSE path
    IN  IF scheme # <<>> THEN scheme \o <<":">> \o withNet ELSE withNet

\* `if part: url = url + delimiter + part`
Delimited(delimiter, part) ==
    IF part # <<>> THEN << delimiter >> \o part ELSE <<>>

\* urlunparse: the params go back onto the path, the query and the
\* fragment onto the end, each only when it is not empty.
urlunparse(scheme, netloc, path, params, query, fragment) ==
    urlunsplit(scheme, netloc, path \o Delimited(";", params))
        \o Delimited("?", query) \o Delimited("#", fragment)

\* segments[1:-1] = filter(None, segments[1:-1])
FilterMiddle(segs) ==
    IF Len(segs) <= 2 THEN segs
    ELSE << segs[1] >>
         \o SelectSeq(SubSeq(segs, 2, Len(segs) - 1), LAMBDA x : x # <<>>)
         \o << segs[Len(segs)] >>

\* The loop of urljoin that removes '.' and '..' segments.
RECURSIVE RemoveDots(_, _)
RemoveDots(segs, resolved) ==
    IF segs = <<>> THEN resolved
    ELSE IF Head(segs) = <<".",".">>
         THEN RemoveDots(Tail(segs),
                         IF resolved = <<>> THEN <<>>
                         ELSE SubSeq(resolved, 1, Len(resolved) - 1))
    ELSE IF Head(segs) = <<".">>
         THEN RemoveDots(Tail(segs), resolved)
    ELSE RemoveDots(Tail(segs), Append(resolved, Head(segs)))

\* base_parts: the segments of the base path without its last segment
BaseParts(bp) ==
    IF bp[Len(bp)] # <<>> THEN SubSeq(bp, 1, Len(bp) - 1) ELSE bp

\* segments: those of an absolute path, or of the path appended to the base
Segments(bpath, path) ==
    IF path # <<>> /\ path[1] = "/"
    THEN split(path, "/")
    ELSE FilterMiddle(BaseParts(split(bpath, "/")) \o split(path, "/"))

\* `if segments[-1] in ('.', '..'): resolved_path.append('')`
TrailingSlash(last) ==
    IF last = <<".">> \/ last = <<".",".">> THEN << <<>> >> ELSE <<>>

\* '/'.join(resolved_path) or '/'
OrSlash(path) == IF path = <<>> THEN <<"/">> ELSE path

ResolvedPath(segments) ==
    OrSlash(join(RemoveDots(segments, <<>>)
                 \o TrailingSlash(segments[Len(segments)]), <<"/">>))

\* urljoin once base (b) and url (u) are parsed
JoinSplit(url, b, u) ==
    IF u.scheme # b.scheme \/ u.scheme \notin uses_relative THEN url
    ELSE IF u.scheme \in uses_netloc /\ u.netloc # <<>>
         THEN urlunparse(u.scheme, u.netloc, u.path, u.params, u.query,
                         u.fragment)
    ELSE IF u.path = <<>> /\ u.params = <<>>
         THEN urlunparse(u.scheme, b.netloc, b.path, b.params,
                         IF u.query = <<>> THEN b.query ELSE u.query,
                         u.fragment)
    ELSE urlunparse(u.scheme, b.netloc,
                    ResolvedPath(Segments(b.path, u.path)),
                    u.params, u.query, u.fragment)

JoinBase(url, b) == JoinSplit(url, b, urlparse(url, b.scheme))

urljoin(base, url) ==
    IF base = <<>> THEN url
    ELSE IF url = <<>> THEN base
    ELSE JoinBase(url, urlparse(base, <<>>))

\* ------------------------------------------------------------------------
\* The regular expressions of extract_submit_url, computed as re.search and
\* re.findall compute them: leftmost start, lazy `.*?` (shortest gap first),
\* greedy classes, and `.` matching every character but the newline.
\* ------------------------------------------------------------------------

CH_POST   == <<"P","O","S","T">>

CH_submit == <<"s","u","b","m","i","t">>

CH_to     == <<"t","o">>

CH_http   == <<"h","t","t","p">>

CH_css    == <<":","/","/">>

\* `.*?` may span s[from..to-1]: no newline in between.
DotGap(s, from, to) == \A k \in from..(to - 1) : s[k] # "\n"

\* `https?://` at position k: the index after "://", or 0 when no match.
\* ci is TRUE under re.IGNORECASE.
SchemeEnd(s, k, ci) ==
    LET lit(i, l) == IF ci THEN MatchLitCI(s, i, l) ELSE MatchLit(s, i, l)
    IN  IF ~lit(k, CH_http) THEN 0
        ELSE IF lit(k + 4, <<"s">>) /\ lit(k + 5, CH_css) THEN k + 8
        ELSE IF lit(k + 4, CH_css) THEN k + 7
        ELSE 0

\* A greedy class that must take at least one character, from position q
\* up to the first character of stop: the index after it, or 0 when it
\* takes nothing (q = 0: what precedes did not match).
ClassRunEnd(s, q, stop) ==
    IF q = 0 \/ q > Len(s) THEN 0
    ELSE IF s[q] \in stop THEN 0
    ELSE FirstIn(s, q, stop)

\* `https?://[^\s]+` at position k: the index after the match, or 0.
AbsUrlEnd(s, k, ci) == ClassRunEnd(s, SchemeEnd(s, k, ci), Whitespace)

\* `[^\s]+submit[^\s]*` from position q to e, the end of the run of
\* non-space characters: "submit" must occur in it at least one character
\* after q.  The index after the match, or 0.
SubmitInRun(s, q, e) ==
    IF e # 0 /\ \E p \in (q + 1)..(e - 6) : MatchLitCI(s, p, CH_submit)
    THEN e ELSE 0

SubmitRunEnd(s, q) == SubmitInRun(s, q, ClassRunEnd(s, q, Whitespace))

\* `https?://[^\s]+submit[^\s]*` at position k: the index after the match,
\* or 0.
SubmitUrlEnd(s, k) == SubmitRunEnd(s, SchemeEnd(s, k, TRUE))

\* `to\s+` at position j: the index of the first character after the
\* whitespace run, or 0 when "to" or the whitespace is missing.
ToSpaceEnd(s, j) ==
    LET w == FirstNotIn(s, j + 2, Whitespace)
    IN  IF MatchLitCI(s, j, CH_to) /\ j + 2 <= Len(s) /\ w > j + 2
        THEN w ELSE 0

\* The literal that opens a pattern, tried at position i: the index after
\* it (where the lazy `.*?` begins), or 0 when it does not match there.
PostStart(s, i) == IF MatchLitCI(s, i, CH_POST) THEN i + 4 ELSE 0

SubmitStart(s, i) == IF MatchLitCI(s, i, CH_submit) THEN i + 6 ELSE 0

\* (?:POST|submit)
PostOrSubmitStart(s, i) ==
    IF MatchLitCI(s, i, CH_POST) THEN i + 4
    ELSE IF MatchLitCI(s, i, CH_submit) THEN i + 6
    ELSE 0

\* The span <<first, last + 1>> of a group that starts at w and ends before
\* e; <<0, 0>> when either is 0 (no match).
Span(w, e) == IF w # 0 /\ e # 0 THEN <<w, e>> ELSE <<0, 0>>

\* What follows the lazy gap of a pattern, tried at position j: the span of
\* group 1, or <<0, 0>> when it does not match there.
\* `(https?://[^\s]+)`
AbsUrl(s, j) == Span(j, AbsUrlEnd(s, j, TRUE))

\* `(https?://[^\s]+submit[^\s]*)`
SubmitUrl(s, j) == Span(j, SubmitUrlEnd(s, j))

\* `to\s+(https?://[^\s]+)`
ToAbsUrl(s, j) == AbsUrl(s, ToSpaceEnd(s, j))

\* `(/[^\s]+)` at position w
RelativeUrl(s, w) ==
    IF MatchLit(s, w, <<"/">>)
    THEN Span(w, ClassRunEnd(s, w + 1, Whitespace))
    ELSE <<0, 0>>

\* `to\s+(/[^\s]+)`
ToRelative(s, j) == RelativeUrl(s, ToSpaceEnd(s, j))

\* The least element of a non-empty set of integers
Least(S) == CHOOSE x \in S : \A y \in S : x <= y

\* The positions at which a match may start or a gap may end
Positions(s) == 1..(Len(s) + 1)

\* The gap ends a lazy `.*?` that starts at k may reach, among ends
GapEnds(s, k, ends) == {j \in ends : j >= k /\ DotGap(s, k, j)}

\* The positions at which a whole match starts
MatchStarts(s, gapStart, ends) ==
    {i \in Positions(s) :
        gapStart[i] # 0 /\ GapEnds(s, gapStart[i], ends) # {}}

Slice(s, span) == SubSeq(s, span[1], span[2] - 1)

\* Group 1 of the match with the leftmost start and, for it, the least gap
FirstGroup(s, gapStart, group, ends, starts) ==
    IF starts = {} THEN NONE
    ELSE Slice(s, group[Least(GapEnds(s, gapStart[Least(starts)], ends))])

SearchEnds(s, gapStart, group, ends) ==
    FirstGroup(s, gapStart, group, ends, MatchStarts(s, gapStart, ends))

\* re.search(r'<start>.*?<rest>', s, re.IGNORECASE).group(1), or NONE when
\* there is no match.  gapStart[i] is where the gap begins when the opening
\* literal matches at i (0 when it does not); group[j] is the span of group
\* 1 when the rest of the pattern matches at j (<<0, 0>> when it does not).
re_search(s, gapStart, group) ==
    SearchEnds(s, gapStart, group,
               {j \in Positions(s) : group[j] # <<0, 0>>})

\* re.findall(r'https?://[^\s<>"]+', s) from position pos on: the matches
\* left to right, without overlap (no re.IGNORECASE here).
UrlEndAt(s, k) ==
    ClassRunEnd(s, SchemeEnd(s, k, FALSE), Whitespace \cup {"<", ">", "\""})

RECURSIVE findall_urls(_, _)
findall_urls(s, pos) ==
    LET found == {k \in pos..Len(s) : UrlEndAt(s, k) # 0}
    IN  IF found = {} THEN <<>>
        ELSE LET k == Least(found)
                 e == UrlEndAt(s, k)
             IN  << SubSeq(s, k, e - 1) >> \o findall_urls(s, e)

\* rstrip('.,;:')
TrailingPunct == {".", ",", ";", ":"}

\* ------------------------------------------------------------------------
\* QuizSolver.extract_submit_url (solver.py 101-138).  An analysis is the
\* record [has_submit_url, submit_url, task_type]: has_submit_url is
\* `"submit_url" in analysis`, submit_url is the string or NONE (JSON null).
\* ------------------------------------------------------------------------

\* The first URL of urls whose lowercase form contains "submit", or NONE.
FirstSubmitUrl(urls) ==
    LET hits == SelectSeq(urls, LAMBDA u : Contains(lower(u), CH_submit))
    IN  IF hits = <<>> THEN NONE ELSE hits[1]

\* The hint branch (lines 105-110).
HintUrl(hint, current_url) ==
    IF ~startswith(hint, CH_http)
    THEN urljoin(current_url, hint)
    ELSE hint

\* `if match: return match.group(1).rstrip('.,;:')`, else the next matcher
Trimmed(m, otherwise) ==
    IF m # NONE THEN rstrip(m, TrailingPunct) ELSE otherwise

\* `if relative_match: return urljoin(current_url, ...)`, else None
Joined(m, current_url) ==
    IF m # NONE THEN urljoin(current_url, rstrip(m, TrailingPunct)) ELSE NONE

\* The three patterns of the list (lines 114-124)
PostToUrl(s) ==
    re_search(s, [i \in Positions(s) |-> PostStart(s, i)],
                 [j \in Positions(s) |-> ToAbsUrl(s, j)])

SubmitSubmitUrl(s) ==
    re_search(s, [i \in Positions(s) |-> SubmitStart(s, i)],
                 [j \in Positions(s) |-> SubmitUrl(s, j)])

PostUrl(s) ==
    re_search(s, [i \in Positions(s) |-> PostStart(s, i)],
                 [j \in Positions(s) |-> AbsUrl(s, j)])

\* The relative pattern (line 133)
RelativeTo(s) ==
    re_search(s, [i \in Positions(s) |-> PostOrSubmitStart(s, i)],
                 [j \in Positions(s) |-> ToRelative(s, j)])

\* A text branch that tries the bare POST pattern before the others
TextSubmitUrlBareFirst(question_text, current_url) ==
    Trimmed(PostUrl(question_text),
    Trimmed(PostToUrl(question_text),
    Trimmed(SubmitSubmitUrl(question_text),
    Trimmed(FirstSubmitUrl(findall_urls(question_text, 1)),
    Joined(RelativeTo(question_text), current_url)))))

\* The text branch (lines 112-138): the first matcher that matches decides.
TextSubmitUrl(question_text, current_url) ==
    Trimmed(PostToUrl(question_text),
    Trimmed(SubmitSubmitUrl(question_text),
    Trimmed(PostUrl(question_text),
    Trimmed(FirstSubmitUrl(findall_urls(question_text, 1)),
    Joined(RelativeTo(question_text), current_url)))))

extract_submit_url(question_text, analysis, current_url) ==
    IF analysis.has_submit_url /\ Truthy(analysis.submit_url)
    THEN HintUrl(analysis.submit_url, current_url)
    ELSE TextSubmitUrl(question_text, current_url)

\* ------------------------------------------------------------------------
\* LLMClient.solve_question_direct (llm_client.py 147-157): the reply is
\* stripped, then int(), then float(), then the string itself.  An answer is
\* the record [type, num, exp, str]: an int is num; a float is num * 10^exp
\* with num not divisible by 10 (or str = "inf"/"nan"); a string is str.
\* ------------------------------------------------------------------------

\* str.strip()
strip(s) ==
    LET a == FirstNotIn(s, 1, Whitespace)
        b == CHOOSE e \in 0..Len(s) :
                 /\ \A k \in (e + 1)..Len(s) : s[k] \in Whitespace
                 /\ e = 0 \/ s[e] \notin Whitespace
    IN  SubSeq(s, a, b)

DigitValue(ch) == (CHOOSE k \in 1..10 : Digits[k] = ch) - 1

\* digit (_? digit)*: a digit part of a Python numeric literal
IsDigitPart(s) ==
    /\ s # <<>>
    /\ \A k \in 1..Len(s) : IsDigit(s[k]) \/ s[k] = "_"
    /\ IsDigit(s[1]) /\ IsDigit(s[Len(s)])
    /\ \A k \in 1..(Len(s) - 1) : ~(s[k] = "_" /\ s[k + 1] = "_")

RECURSIVE DigitsValue(_)
DigitsValue(s) ==
    IF s = <<>> THEN 0
    ELSE IF s[Len(s)] = "_" THEN DigitsValue(SubSeq(s, 1, Len(s) - 1))
    ELSE 10 * DigitsValue(SubSeq(s, 1, Len(s) - 1)) + DigitValue(s[Len(s)])

\* The number of digits of a digit part
DigitCount(s) == Cardinality({k \in 1..Len(s) : IsDigit(s[k])})

HasSign(s) == s # <<>> /\ s[1] \in {"+", "-"}

Unsigned(s) == IF HasSign(s) THEN Tail(s) ELSE s

SignOf(s) == IF s # <<>> /\ s[1] = "-" THEN -1 ELSE 1

\* int(s) succeeds
IsIntLiteral(s) == IsDigitPart(Unsigned(strip(s)))

IntValue(s) == SignOf(strip(s)) * DigitsValue(Unsigned(strip(s)))

\* The split of an unsigned decimal float literal into integer part,
\* fraction part and exponent part ("" when absent).
FloatParts(u) ==
    LET ePos == FirstIn(lower(u), 1, {"e"})
        mant == SubSeq(u, 1, ePos - 1)
        expo == SubSeq(u, ePos + 1, Len(u))
        dot  == FirstIn(mant, 1, {"."})
    IN  [ hasExp |-> ePos <= Len(u),
          expo   |-> expo,
          hasDot |-> dot <= Len(mant),
          int    |-> SubSeq(mant, 1, dot - 1),
          frac   |-> SubSeq(mant, dot + 1, Len(mant)) ]

IsSpecialFloat(u) ==
    lower(u) \in { <<"i","n","f">>, <<"n","a","n">>,
                   <<"i","n","f","i","n","i","t","y">> }

\* float(s) succeeds
IsFloatLiteral(s) ==
    LET u == Unsigned(strip(s))
        p == FloatParts(u)
    IN  \/ IsSpecialFloat(u)
        \/ /\ \/ IsDigitPart(p.int) /\ (p.frac = <<>> \/ IsDigitPart(p.frac))
              \/ p.int = <<>> /\ p.hasDot /\ IsDigitPart(p.frac)
           /\ p.hasExp => IsDigitPart(Unsigned(p.expo))

\* num * 10^exp with the trailing zeros of num moved into exp
RECURSIVE Normalise(_, _)
Normalise(num, exp) ==
    IF num = 0 THEN <<0, 0>>
    ELSE IF num % 10 = 0 THEN Normalise(num \div 10, exp + 1)
    ELSE <<num, exp>>

IntAnswer(n) == [type |-> "int", num |-> n, exp |-> 0, str |-> <<>>]

StrAnswer(s) == [type |-> "str", num |-> 0, exp |-> 0, str |-> s]

FloatAnswer(s) ==
    LET t == strip(s)
        u == Unsigned(t)
        p == FloatParts(u)
        e == IF p.hasExp
             THEN SignOf(p.expo) * DigitsValue(Unsigned(p.expo)) ELSE 0
        n == Normalise(DigitsValue(p.int \o p.frac), e - DigitCount(p.frac))
    IN  IF IsSpecialFloat(u)
        THEN [type |-> "float", num |-> SignOf(t), exp |-> 0,
              str |-> SubSeq(lower(u), 1, 3)]
        ELSE [type |-> "float", num |-> SignOf(t) * n[1], exp |-> n[2],
              str |-> <<>>]

\* A solve_question that tries the float before the integer
float_first(reply) ==
    IF IsFloatLiteral(strip(reply)) THEN FloatAnswer(reply)
    ELSE IF IsIntLiteral(strip(reply)) THEN IntAnswer(IntValue(strip(reply)))
    ELSE StrAnswer(strip(reply))

\* The value solve_question_direct returns for the oracle's reply text.
coerce_answer(reply) ==
    LET answer == strip(reply)
    IN  IF IsIntLiteral(answer) THEN IntAnswer(IntValue(answer))
        ELSE IF IsFloatLiteral(answer) THEN FloatAnswer(answer)
        ELSE StrAnswer(answer)

\* ------------------------------------------------------------------------
\* Program constants and the inputs the environment may supply
\* ------------------------------------------------------------------------

\* config.TIMEOUT_SECONDS
TIMEOUT_SECONDS == 180

\* The buffer of `self.time_remaining() > 10` and `<= 10` in solve_chain
BUFFER_SECONDS == 10

\* config.EMAIL and config.SECRET
EMAIL == "your-email@example.com"

SECRET == "your-secret-string"

\* The value solve_question returns when only the fallback succeeded
UNABLE == 
    <<"U","n","a","b","l","e"," ","t","o"," ","s","o","l","v","e",
      " ","a","u","t","o","m","a","t","i","c","a","l","l","y">>

\* Bounds of the model: questions started per chain, and the clock range.
MaxQuestions == 2

MaxClock == 260

\* The inbound /solve requests, each with a QuizSolver of its own when it is
\* accepted.  A chain reads and writes only its own solver and locals.
Chains == {1}

\* Seconds an awaited operation may take.  Sums of these reach 168, 169 and
\* 170 seconds of elapsed time, on both sides of the 10-second buffer.
Latencies == {0, 84, 85}

U_q1 == <<"h","t","t","p","s",":","/","/","h","/","q","1">>

U_q2 == <<"h","t","t","p","s",":","/","/","h","/","q","2">>

\* The bodies of inbound requests: QuizRequest(email, secret, url)
Requests ==
    [ email  : {EMAIL, "other@example.com"},
      secret : {SECRET, "wrong-secret"},
      url    : {U_q1, <<>>} ]

\* Visible text the renderer may return for a page
T_post == 
    <<"P","O","S","T"," ","y","o","u","r"," ","a","n","s","w","e",
      "r"," ","t","o"," ","h","t","t","p","s",":","/","/","s","/",
      "s","u","b","1",".">>

T_submit == 
    <<"P","l","e","a","s","e"," ","s","u","b","m","i","t"," ","a",
      "t"," ","h","t","t","p","s",":","/","/","s","/","s","u","b",
      "m","i","t","-","a",","," ","t","h","a","n","k","s">>

T_bare == 
    <<"p","o","s","t"," ","j","s","o","n"," ","h","t","t","p","s",
      ":","/","/","s","/","x","1",";"," ","d","o","n","e">>

T_any == 
    <<"s","e","e"," ","h","t","t","p","s",":","/","/","s","/","d",
      "o","-","S","u","b","m","i","t",":"," ","n","o","w">>

T_relative == 
    <<"S","u","b","m","i","t"," ","t","h","e"," ","a","n","s","w",
      "e","r"," ","t","o"," ","/","s","u","b","m","i","t","-","a",
      "b","c",".">>

T_nothing == <<"W","h","a","t"," ","i","s"," ","2","+","2","?">>

\* Texts that more than one matcher matches, with different URLs
T_post_twice == 
    <<"P","O","S","T"," ","h","t","t","p","s",":","/","/","s","/",
      "a"," ","o","r"," ","t","o"," ","h","t","t","p","s",":","/",
      "/","s","/","b">>

T_submit_second == 
    <<"s","u","b","m","i","t",":"," ","P","O","S","T"," ","h","t",
      "t","p","s",":","/","/","s","/","a"," ","a","n","d"," ","h",
      "t","t","p","s",":","/","/","s","/","s","u","b","m","i","t">>

T_url_before_relative == 
    <<"s","e","e"," ","h","t","t","p","s",":","/","/","s","/","s",
      "u","b","m","i","t","-","x"," ","o","r"," ","s","u","b","m",
      "i","t"," ","t","o"," ","/","r","e","l">>

Texts ==
    { T_post, T_submit, T_bare, T_any, T_relative, T_nothing,
      T_post_twice, T_submit_second, T_url_before_relative }

\* A text whose URL is followed by a full stop
T_punct_post_to ==
    <<"P","O","S","T"," ","t","o"," ","h","t","t","p","s",":","/",
      "/","x","/","s","u","b","m","i","t",".">>

\* Texts whose URL is followed by '.', ',', ';' or ':', one or more for
\* each matcher; in the last two the relative reference goes on with an
\* empty fragment or query.
PunctuatedTexts ==
    { T_punct_post_to,
      \* POST to https://x/submit.,;:
      <<"P","O","S","T"," ","t","o"," ","h","t","t","p","s",":","/",
      "/","x","/","s","u","b","m","i","t",".",",",";",":">>,
      \* submit at https://x/submit;
      <<"s","u","b","m","i","t"," ","a","t"," ","h","t","t","p","s",
      ":","/","/","x","/","s","u","b","m","i","t",";">>,
      \* POST https://x/a:
      <<"P","O","S","T"," ","h","t","t","p","s",":","/","/","x","/",
      "a",":">>,
      \* see https://x/submit,
      <<"s","e","e"," ","h","t","t","p","s",":","/","/","x","/","s",
      "u","b","m","i","t",",">>,
      \* submit to /s.
      <<"s","u","b","m","i","t"," ","t","o"," ","/","s",".">>,
      \* submit to /s.#
      <<"s","u","b","m","i","t"," ","t","o"," ","/","s",".","#">>,
      \* POST to /s:?
      <<"P","O","S","T"," ","t","o"," ","/","s",":","?">> }

\* Analyses the oracle may return: json.loads of its reply
Analysis(has, hint) ==
    [has_submit_url |-> has, submit_url |-> hint, task_type |-> "other"]

Analyses ==
    { Analysis(FALSE, NONE),
      Analysis(TRUE, NONE),
      Analysis(TRUE, <<>>),
      Analysis(TRUE, <<"h","t","t","p","s",":","/","/","s","/","h","i","n","t">>),
      Analysis(TRUE, <<"/","n","e","x","t">>),
      Analysis(TRUE, <<"h","t","t","p","x","/","s">>),
      [Analysis(FALSE, NONE) EXCEPT !.task_type = "data_analysis"] }

\* Reply texts of the oracle's direct answer
Replies ==
    { <<"7">>, <<"3",".","1","4">>, <<"P","a","r","i","s">>,
      <<" ","4","2","\n">> }

\* Outcomes of the POST: a transport error, a non-2xx status, a 2xx body
\* that is not JSON, a 2xx JSON value that is no object, or a 2xx object
\* with optional fields correct and url (has_url FALSE: the key is absent).
Responses ==
    [ kind : {"network_error", "http_error", "not_json", "not_object"},
      correct : {FALSE}, has_url : {FALSE}, url : {NONE} ]
    \cup
    [ kind : {"object"}, correct : BOOLEAN, has_url : {TRUE},
      url : {NONE, <<>>, U_q1, U_q2} ]
    \cup
    [ kind : {"object"}, correct : BOOLEAN, has_url : {FALSE}, url : {NONE} ]

\* ------------------------------------------------------------------------
\* State
\* ------------------------------------------------------------------------

VARIABLES
    now,             \* datetime.now(), in seconds
    manager,         \* browser.py: _browser_manager is not None
    browser,         \* BrowserManager.browser: 0 (None) or the process
    launched,        \* the browser processes launched so far
    pc,              \* where each request / background task stands
    status,          \* HTTP status answered by /solve (0: not answered yet)
    req,             \* the request received by /solve
    email,           \* QuizSolver.email
    secret,          \* QuizSolver.secret
    start_time,      \* QuizSolver.start_time (NoTime: None)
    current_url,     \* solve_chain: current_url
    question_count,  \* solve_chain: question_count
    next_url,        \* solve_chain: next_url, the last value returned
    raised,          \* solve_chain: the except clause has been entered
    time_logged,     \* the "Time remaining" logged when a question starts
    quiz_url,        \* solve_single_quiz: quiz_url
    question_text,   \* solve_single_quiz: question_text
    analysis,        \* solve_single_quiz: analysis
    submit_url,      \* solve_single_quiz: submit_url
    answer,          \* solve_single_quiz: answer
    fetching,        \* where the render stands inside browser.py
    body_text,       \* fetch_page_content: body_text
    reply,           \* solve_question_direct: the stripped reply text
    pages,           \* the pages each chain has opened and not closed
    awaiting,        \* the external operations started and not completed
    steps,           \* the operations started for the current question
    post,            \* the POST in flight: its target and JSON body
    response,        \* the response received to the last POST
    logs             \* the outcome messages logged for the chain

vars == << now, manager, browser, launched, pc, status, req, email, secret,
           start_time, current_url, question_count, next_url, raised,
           time_logged, quiz_url, question_text, analysis, submit_url,
           answer, fetching, body_text, reply, pages, awaiting, steps,
           post, response, logs >>

\* The module state of browser.py
shared == << manager, browser, launched >>

\* The request and its answer
inbound == << status, req >>

\* The fields of the QuizSolver instance
solver == << email, secret, start_time >>

\* The variables of solve_chain
loop == << current_url, question_count, next_url, raised, time_logged >>

\* The variables of solve_single_quiz and of the calls it awaits
locals == << quiz_url, question_text, analysis, submit_url, answer,
             fetching, body_text, reply >>

NoTime == -1

NoRequest == [email |-> "", secret |-> "", url |-> NONE]

NoAnalysis == [has_submit_url |-> FALSE, submit_url |-> NONE, task_type |-> ""]

NoAnswer == [type |-> "none", num |-> 0, exp |-> 0, str |-> <<>>]

NoPost == [target |-> NONE, email |-> "", secret |-> "", url |-> NONE,
           answer |-> NoAnswer]

NoResponse == [kind |-> "none", correct |-> FALSE, has_url |-> FALSE,
               url |-> NONE]

\* The state before any of the requests in C has arrived
InitOf(C) ==
    /\ now = 0
    /\ manager = FALSE
    /\ browser = 0
    /\ launched = 0
    /\ pc = [c \in C |-> "idle"]
    /\ status = [c \in C |-> 0]
    /\ req = [c \in C |-> NoRequest]
    /\ email = [c \in C |-> ""]
    /\ secret = [c \in C |-> ""]
    /\ start_time = [c \in C |-> NoTime]
    /\ current_url = [c \in C |-> NONE]
    /\ question_count = [c \in C |-> 0]
    /\ next_url = [c \in C |-> NONE]
    /\ raised = [c \in C |-> FALSE]
    /\ time_logged = [c \in C |-> NoTime]
    /\ quiz_url = [c \in C |-> NONE]
    /\ question_text = [c \in C |-> NONE]
    /\ analysis = [c \in C |-> NoAnalysis]
    /\ submit_url = [c \in C |-> NONE]
    /\ answer = [c \in C |-> NoAnswer]
    /\ fetching = [c \in C |-> "none"]
    /\ body_text = [c \in C |-> NONE]
    /\ reply = [c \in C |-> NONE]
    /\ pages = [c \in C |-> 0]
    /\ awaiting = [c \in C |-> {}]
    /\ steps = [c \in C |-> <<>>]
    /\ post = [c \in C |-> NoPost]
    /\ response = [c \in C |-> NoResponse]
    /\ logs = [c \in C |-> {}]

Init == InitOf(Chains)

\* An awaited operation completes d seconds after the previous event.
Elapse(d) ==
    /\ now + d <= MaxClock
    /\ now' = now + d

\* ------------------------------------------------------------------------
\* main.py: the /solve endpoint and the background task
\* ------------------------------------------------------------------------

\* A check of the secret alone
AuthorizedBySecret(request) == request.secret = SECRET

\* solve_quiz (main.py 46-54): the two credential checks
Authorized(request) ==
    /\ request.secret = SECRET
    /\ request.email = EMAIL

\* solve_quiz (main.py 39-67): a request arrives; it is rejected with 403,
\* or its chain is added to the background tasks and 200 is answered.
SolveQuiz(c) ==
    /\ pc[c] = "idle"
    /\ \E request \in Requests, d \in Latencies :
        /\ Elapse(d)
        /\ req' = [req EXCEPT ![c] = request]
        /\ IF Authorized(request)
           THEN /\ status' = [status EXCEPT ![c] = 200]
                /\ pc' = [pc EXCEPT ![c] = "queued"]
           ELSE /\ status' = [status EXCEPT ![c] = 403]
                /\ pc' = [pc EXCEPT ![c] = "rejected"]
    /\ UNCHANGED << shared, solver, loop, locals, pages, awaiting, steps,
                    post, response, logs >>

\* ------------------------------------------------------------------------
\* solver.py: QuizSolver
\* ------------------------------------------------------------------------

\* QuizSolver.time_remaining (solver.py 24-29)
time_remaining(c) ==
    IF start_time[c] = NoTime
    THEN TIMEOUT_SECONDS
    ELSE TIMEOUT_SECONDS - (now - start_time[c])

\* A loop that runs while any time at all remains
LoopWhileTimeLeft(c) ==
    /\ Truthy(current_url[c])
    /\ time_remaining(c) > 0

\* A loop that runs while there is a URL
LoopWhileUrl(c) == Truthy(current_url[c])

\* The condition of the while loop of solve_chain (line 41)
LoopCondition(c) ==
    /\ Truthy(current_url[c])
    /\ time_remaining(c) > BUFFER_SECONDS

\* A loop that solves the URL of the request again
RequestUrl(c) == req[c].url

\* The argument of solve_single_quiz in the loop (line 50)
QuestionUrl(c) == current_url[c]

\* The operation whose completion chain c awaits, with its question
Awaited(c) ==
    << IF pc[c] = "render" THEN fetching[c] ELSE pc[c], question_count[c] >>

\* A completion that leaves the operation outstanding
SettleNothing(c) == UNCHANGED awaiting

\* The awaited operation has completed and no other is started.
Settle(c) == awaiting' = [awaiting EXCEPT ![c] = @ \ {Awaited(c)}]

\* The awaited operation has completed and operation op is started.
Await(c, op) ==
    awaiting' = [awaiting EXCEPT ![c] =
                    (@ \ {Awaited(c)}) \cup {<< op, question_count[c] >>}]

\* The frames of solve_single_quiz and of its calls are gone: their locals
\* hold nothing.
ClearLocals(c) ==
    /\ quiz_url' = [quiz_url EXCEPT ![c] = NONE]
    /\ question_text' = [question_text EXCEPT ![c] = NONE]
    /\ analysis' = [analysis EXCEPT ![c] = NoAnalysis]
    /\ submit_url' = [submit_url EXCEPT ![c] = NONE]
    /\ answer' = [answer EXCEPT ![c] = NoAnswer]
    /\ fetching' = [fetching EXCEPT ![c] = "none"]
    /\ body_text' = [body_text EXCEPT ![c] = NONE]
    /\ reply' = [reply EXCEPT ![c] = NONE]

\* An entry into solve_chain that keeps a start time already set
EnterKeepingStart(c, start_url) ==
    /\ start_time' = [start_time EXCEPT ![c] =
                         IF @ = NoTime THEN now ELSE @]
    /\ current_url' = [current_url EXCEPT ![c] = start_url]
    /\ question_count' = [question_count EXCEPT ![c] = 0]
    /\ next_url' = [next_url EXCEPT ![c] = NONE]
    /\ raised' = [raised EXCEPT ![c] = FALSE]
    /\ pc' = [pc EXCEPT ![c] = "loop"]

\* An entry into solve_chain that keeps the start time in one place for
\* all the solvers of the process
EnterSharedStart(c, start_url) ==
    /\ start_time' = [d \in DOMAIN start_time |-> now]
    /\ current_url' = [current_url EXCEPT ![c] = start_url]
    /\ question_count' = [question_count EXCEPT ![c] = 0]
    /\ next_url' = [next_url EXCEPT ![c] = NONE]
    /\ raised' = [raised EXCEPT ![c] = FALSE]
    /\ pc' = [pc EXCEPT ![c] = "loop"]

\* The head of solve_chain (solver.py 35-39), up to the first test of the
\* loop
EnterSolveChain(c, start_url) ==
    /\ start_time' = [start_time EXCEPT ![c] = now]
    /\ current_url' = [current_url EXCEPT ![c] = start_url]
    /\ question_count' = [question_count EXCEPT ![c] = 0]
    /\ next_url' = [next_url EXCEPT ![c] = NONE]
    /\ raised' = [raised EXCEPT ![c] = FALSE]
    /\ pc' = [pc EXCEPT ![c] = "loop"]

\* A background task whose exception is not caught
SolveQuizChainUncaught(c) ==
    /\ pc[c] = "queued"
    /\ \/ /\ email' = [email EXCEPT ![c] = req[c].email]
          /\ secret' = [secret EXCEPT ![c] = req[c].secret]
          /\ EnterSolveChain(c, req[c].url)
       \/ /\ pc' = [pc EXCEPT ![c] = "escaped"]
          /\ UNCHANGED << solver, current_url, question_count, next_url,
                          raised >>
    /\ UNCHANGED << now, shared, inbound, time_logged, locals, pages,
                    awaiting, steps, post, response, logs >>

\* solve_quiz_chain (main.py 70-83) up to the first test of the loop:
\* QuizSolver(email, secret) (solver.py 18-22), which may raise in
\* get_llm_client(), and the head of solve_chain.
SolveQuizChain(c) ==
    /\ pc[c] = "queued"
    /\ \/ /\ email' = [email EXCEPT ![c] = req[c].email]
          /\ secret' = [secret EXCEPT ![c] = req[c].secret]
          /\ EnterSolveChain(c, req[c].url)
          /\ UNCHANGED logs
       \/ /\ logs' = [logs EXCEPT ![c] = @ \cup {"chain_error"}]
          /\ pc' = [pc EXCEPT ![c] = "done"]
          /\ UNCHANGED << solver, current_url, question_count, next_url,
                          raised >>
    /\ UNCHANGED << now, shared, inbound, time_logged, locals, pages,
                    awaiting, steps, post, response >>

\* The test of the while loop (line 41).  When it holds, the body starts:
\* the question is counted, the remaining time is logged (line 45) and
\* solve_single_quiz(current_url) is called (lines 42-50).  It runs up to
\* its first await: get_browser_manager creates the manager when there is
\* none and starts it (browser.py 82-84), new_page starts it when it has
\* no browser (browser.py 28-29), and with a browser new_page asks it for
\* a page (browser.py 31).
WhileTest(c) ==
    /\ pc[c] = "loop"
    /\ IF LoopCondition(c)
       THEN /\ question_count[c] < MaxQuestions
            /\ question_count' = [question_count EXCEPT ![c] = @ + 1]
            /\ time_logged' = [time_logged EXCEPT ![c] = time_remaining(c)]
            /\ quiz_url' = [quiz_url EXCEPT ![c] = QuestionUrl(c)]
            /\ question_text' = [question_text EXCEPT ![c] = NONE]
            /\ analysis' = [analysis EXCEPT ![c] = NoAnalysis]
            /\ submit_url' = [submit_url EXCEPT ![c] = NONE]
            /\ answer' = [answer EXCEPT ![c] = NoAnswer]
            /\ body_text' = [body_text EXCEPT ![c] = NONE]
            /\ reply' = [reply EXCEPT ![c] = NONE]
            /\ manager' = TRUE
            /\ fetching' = [fetching EXCEPT ![c] =
                               IF manager /\ browser # 0
                               THEN "new_page" ELSE "playwright"]
            /\ awaiting' = [awaiting EXCEPT ![c] =
                               @ \cup {<< fetching'[c], question_count'[c] >>}]
            /\ steps' = [steps EXCEPT ![c] = << "render" >>]
            /\ pc' = [pc EXCEPT ![c] = "render"]
       ELSE /\ pc' = [pc EXCEPT ![c] = "after_loop"]
            /\ UNCHANGED << question_count, time_logged, locals, manager,
                            awaiting, steps >>
    /\ UNCHANGED << now, browser, launched, inbound, solver, current_url,
                    next_url, raised, pages, post, response, logs >>

\* An except clause that logs the exception and goes round the loop again
RaiseAndContinue(c) ==
    /\ raised' = [raised EXCEPT ![c] = TRUE]
    /\ logs' = [logs EXCEPT ![c] = @ \cup {"error"}]
    /\ pc' = [pc EXCEPT ![c] = "loop"]
    /\ ClearLocals(c)
    /\ Settle(c)
    /\ post' = [post EXCEPT ![c] = NoPost]
    /\ UNCHANGED << inbound, solver, current_url, question_count, next_url,
                    time_logged, steps, response >>

\* The awaited operation raised, and the exception leaves solve_single_quiz
\* and reaches the except clause of solve_chain (lines 59-61): it is logged
\* and the loop is broken.
Raise(c) ==
    /\ raised' = [raised EXCEPT ![c] = TRUE]
    /\ logs' = [logs EXCEPT ![c] = @ \cup {"error"}]
    /\ pc' = [pc EXCEPT ![c] = "after_loop"]
    /\ ClearLocals(c)
    /\ Settle(c)
    /\ post' = [post EXCEPT ![c] = NoPost]
    /\ UNCHANGED << inbound, solver, current_url, question_count, next_url,
                    time_logged, steps, response >>

\* The awaited operation completed and solve_single_quiz returns v to
\* solve_chain (lines 50-57); lg is what solve_single_quiz logged on its
\* way out.
Return(c, v, lg) ==
    /\ next_url' = [next_url EXCEPT ![c] = v]
    /\ IF Truthy(v)
       THEN /\ current_url' = [current_url EXCEPT ![c] = v]
            /\ logs' = [logs EXCEPT ![c] = @ \cup lg]
            /\ pc' = [pc EXCEPT ![c] = "loop"]
       ELSE /\ logs' = [logs EXCEPT ![c] = @ \cup lg \cup {"completed"}]
            /\ pc' = [pc EXCEPT ![c] = "after_loop"]
            /\ UNCHANGED current_url
    /\ ClearLocals(c)
    /\ Settle(c)
    /\ post' = [post EXCEPT ![c] = NoPost]
    /\ UNCHANGED << inbound, solver, question_count, raised, time_logged >>

\* ------------------------------------------------------------------------
\* browser.py: BrowserManager, as step 1 of solve_single_quiz runs it
\* ------------------------------------------------------------------------

\* The render goes on to the next await of browser.py.
FetchNext(c, op) ==
    /\ fetching' = [fetching EXCEPT ![c] = op]
    /\ Await(c, op)
    /\ UNCHANGED << pc, inbound, solver, loop, quiz_url, question_text,
                    analysis, submit_url, answer, reply, steps, post,
                    response, logs >>

\* BrowserManager.start (line 19): async_playwright().start() completes
\* and the launch is awaited (line 20), or it raises.
PlaywrightStarted(c) ==
    /\ pc[c] = "render"
    /\ fetching[c] = "playwright"
    /\ \E d \in Latencies :
        /\ Elapse(d)
        /\ \/ FetchNext(c, "launch") /\ UNCHANGED body_text
           \/ Raise(c)
    /\ UNCHANGED << shared, pages >>

\* BrowserManager.start (lines 20-24): the launch completes, the process
\* is stored in self.browser, and new_page asks it for a page (line 31);
\* or the launch raises.
BrowserLaunched(c) ==
    /\ pc[c] = "render"
    /\ fetching[c] = "launch"
    /\ \E d \in Latencies :
        /\ Elapse(d)
        /\ \/ /\ launched' = launched + 1
              /\ browser' = launched + 1
              /\ FetchNext(c, "new_page")
              /\ UNCHANGED body_text
           \/ /\ Raise(c)
              /\ UNCHANGED << browser, launched >>
    /\ UNCHANGED << manager, pages >>

\* BrowserManager.new_page (lines 31-34) and fetch_page_content up to
\* page.goto (lines 41-45): the page is open and the navigation is
\* awaited; or no page could be opened.
NewPage(c) ==
    /\ pc[c] = "render"
    /\ fetching[c] = "new_page"
    /\ \E d \in Latencies :
        /\ Elapse(d)
        /\ \/ /\ pages' = [pages EXCEPT ![c] = @ + 1]
              /\ FetchNext(c, "goto")
              /\ UNCHANGED body_text
           \/ /\ Raise(c)
              /\ UNCHANGED pages
    /\ UNCHANGED shared

\* A navigation whose failure leaves fetch_page_content with the page open
GotoWithoutFinally(c) ==
    /\ pc[c] = "render"
    /\ fetching[c] = "goto"
    /\ \E d \in Latencies :
        /\ Elapse(d)
        /\ \/ FetchNext(c, "evaluate") /\ UNCHANGED body_text
           \/ Raise(c)
    /\ UNCHANGED << shared, pages >>

\* page.goto completes (line 45) and the waits and reads of lines 48-54
\* are awaited; or it raises (navigation error, timeout), and the finally
\* clause awaits page.close() (lines 60-64).
GotoDone(c) ==
    /\ pc[c] = "render"
    /\ fetching[c] = "goto"
    /\ \E d \in Latencies :
        /\ Elapse(d)
        /\ \/ FetchNext(c, "evaluate")
           \/ FetchNext(c, "close")
        /\ UNCHANGED body_text
    /\ UNCHANGED << shared, pages >>

\* The waits and reads complete with the text of the body (lines 48-58),
\* or one of them raises; either way the finally clause awaits
\* page.close() (line 64).
EvaluateDone(c) ==
    /\ pc[c] = "render"
    /\ fetching[c] = "evaluate"
    /\ \E d \in Latencies :
        /\ Elapse(d)
        /\ FetchNext(c, "close")
        /\ \/ \E text \in Texts :
                body_text' = [body_text EXCEPT ![c] = text]
           \/ UNCHANGED body_text
    /\ UNCHANGED << shared, pages >>

\* Step 1 completes (browser.py 64, solver.py 75-80): the page is closed,
\* and fetch_page_content returns the text, with which the analysis is
\* requested, or raises the exception it caught.
RenderDone(c) ==
    /\ pc[c] = "render"
    /\ fetching[c] = "close"
    /\ \E d \in Latencies :
        /\ Elapse(d)
        /\ pages' = [pages EXCEPT ![c] = @ - 1]
        /\ IF body_text[c] # NONE
           THEN /\ question_text' = [question_text EXCEPT ![c] = body_text[c]]
                /\ body_text' = [body_text EXCEPT ![c] = NONE]
                /\ fetching' = [fetching EXCEPT ![c] = "none"]
                /\ steps' = [steps EXCEPT ![c] = Append(@, "analyze")]
                /\ pc' = [pc EXCEPT ![c] = "analyze"]
                /\ Await(c, "analyze")
                /\ UNCHANGED << inbound, solver, loop, quiz_url, analysis,
                                submit_url, answer, reply, post, response,
                                logs >>
           ELSE Raise(c)
    /\ UNCHANGED shared

\* ------------------------------------------------------------------------
\* solver.py: steps 2 to 5 of solve_single_quiz
\* ------------------------------------------------------------------------

\* A step 3 that goes on to step 4 whatever it has resolved
ResolveAnyway(c, a) ==
    /\ analysis' = [analysis EXCEPT ![c] = a]
    /\ submit_url' = [submit_url EXCEPT ![c] =
                         extract_submit_url(question_text[c], a, quiz_url[c])]
    /\ steps' = [steps EXCEPT ![c] = @ \o << "resolve", "solve" >>]
    /\ pc' = [pc EXCEPT ![c] = "solve"]
    /\ Await(c, "solve")
    /\ UNCHANGED << inbound, solver, loop, quiz_url, question_text,
                    answer, fetching, body_text, reply, post, response,
                    logs >>

\* Step 3 (lines 84-88) and the call of step 4 (line 93), run when the
\* analysis has arrived.  Without a submit URL solve_single_quiz returns
\* None; with one, solve_question asks the oracle for a direct answer
\* (line 152).
Resolve(c, a) ==
    LET url == extract_submit_url(question_text[c], a, quiz_url[c])
    IN  IF ~Truthy(url)
        THEN /\ steps' = [steps EXCEPT ![c] = Append(@, "resolve")]
             /\ Return(c, NONE, {"no_submit_url"})
             /\ UNCHANGED response
        ELSE /\ analysis' = [analysis EXCEPT ![c] = a]
             /\ submit_url' = [submit_url EXCEPT ![c] = url]
             /\ steps' = [steps EXCEPT ![c] = @ \o << "resolve", "solve" >>]
             /\ pc' = [pc EXCEPT ![c] = "solve"]
             /\ Await(c, "solve")
             /\ UNCHANGED << inbound, solver, loop, quiz_url, question_text,
                             answer, fetching, body_text, reply, post,
                             response, logs >>

\* Step 2 completes (line 80): the oracle returns an analysis, or the call
\* or the parsing of its reply raises (llm_client.py 42-80).
AnalyzeDone(c) ==
    /\ pc[c] = "analyze"
    /\ \E d \in Latencies :
        /\ Elapse(d)
        /\ \/ Raise(c)
           \/ \E a \in Analyses : Resolve(c, a)
    /\ UNCHANGED << shared, pages >>

\* A payload whose url is the URL posted to
PayloadOfTarget(c, url, quiz, ans) ==
    [ target |-> url,
      email  |-> email[c],
      secret |-> secret[c],
      url    |-> url,
      answer |-> ans ]

\* submit_answer builds the payload and posts it (lines 178-190).
submit_request(c, url, quiz, ans) ==
    [ target |-> url,
      email  |-> email[c],
      secret |-> secret[c],
      url    |-> quiz,
      answer |-> ans ]

\* Step 5 is called with the answer ans (lines 94-97).
CallSubmit(c, ans) == submit_request(c, submit_url[c], quiz_url[c], ans)

StartSubmit(c, ans) ==
    /\ answer' = [answer EXCEPT ![c] = ans]
    /\ post' = [post EXCEPT ![c] = CallSubmit(c, ans)]
    /\ response' = [response EXCEPT ![c] = NoResponse]
    /\ steps' = [steps EXCEPT ![c] = Append(@, "submit")]
    /\ pc' = [pc EXCEPT ![c] = "submit"]
    /\ Await(c, "submit")
    /\ UNCHANGED << inbound, solver, loop, quiz_url, question_text,
                    analysis, submit_url, fetching, body_text, logs >>

\* A solve_question without the fallback: a failed direct call raises
SolveDirectOnly(c) ==
    /\ pc[c] = "solve"
    /\ \E d \in Latencies :
        /\ Elapse(d)
        /\ \/ \E text \in Replies :
                /\ reply' = [reply EXCEPT ![c] = text]
                /\ StartSubmit(c, coerce_answer(text))
           \/ Raise(c)
    /\ UNCHANGED << shared, pages >>

\* The direct call of solve_question completes (lines 150-155): its
\* coerced reply is the answer, or it raised and the fallback is called
\* (line 160).
SolveDirectDone(c) ==
    /\ pc[c] = "solve"
    /\ \E d \in Latencies :
        /\ Elapse(d)
        /\ \/ \E text \in Replies :
                /\ reply' = [reply EXCEPT ![c] = text]
                /\ StartSubmit(c, coerce_answer(text))
           \/ /\ pc' = [pc EXCEPT ![c] = "fallback"]
              /\ Await(c, "fallback")
              /\ UNCHANGED << inbound, solver, loop, locals, steps, post,
                              response, logs >>
    /\ UNCHANGED << shared, pages >>

\* The fallback call completes (lines 159-171): the generated code is only
\* logged and the sentinel is the answer, or the call raised and
\* solve_question re-raises.
FallbackDone(c) ==
    /\ pc[c] = "fallback"
    /\ \E d \in Latencies :
        /\ Elapse(d)
        /\ \/ StartSubmit(c, StrAnswer(UNABLE)) /\ UNCHANGED reply
           \/ Raise(c)
    /\ UNCHANGED << shared, pages >>

\* A submit_answer that gives the next URL only for a correct answer
UrlWhenCorrect(resp) ==
    IF resp.kind = "object" /\ resp.has_url /\ resp.correct
    THEN resp.url
    ELSE NONE

\* What submit_answer returns for a response (lines 190-213): the url field
\* of a 2xx JSON object, None for every failure.
SubmitResult(resp) ==
    IF resp.kind = "object" /\ resp.has_url THEN resp.url ELSE NONE

\* A step 5 that posts again when the response is not a JSON object
SubmitAgain(c) ==
    /\ pc[c] = "submit"
    /\ \E d \in Latencies, resp \in Responses :
        /\ Elapse(d)
        /\ response' = [response EXCEPT ![c] = resp]
        /\ IF resp.kind = "object"
           THEN /\ Return(c, SubmitResult(resp), {})
                /\ UNCHANGED steps
           ELSE /\ Len(steps[c]) < 7
                /\ steps' = [steps EXCEPT ![c] = Append(@, "submit")]
                /\ UNCHANGED << pc, inbound, solver, loop, locals, awaiting,
                                post, logs >>
    /\ UNCHANGED << shared, pages >>

\* A step 5 that catches the status error only: a transport error is
\* raised to solve_chain
SubmitRaising(c) ==
    /\ pc[c] = "submit"
    /\ \E d \in Latencies, resp \in Responses :
        /\ Elapse(d)
        /\ response' = [response EXCEPT ![c] = resp]
        /\ IF resp.kind = "network_error"
           THEN /\ raised' = [raised EXCEPT ![c] = TRUE]
                /\ logs' = [logs EXCEPT ![c] = @ \cup {"error"}]
                /\ pc' = [pc EXCEPT ![c] = "after_loop"]
                /\ ClearLocals(c)
                /\ Settle(c)
                /\ post' = [post EXCEPT ![c] = NoPost]
                /\ UNCHANGED << inbound, solver, current_url,
                                question_count, next_url, time_logged >>
           ELSE Return(c, SubmitResult(resp), {})
        /\ UNCHANGED steps
    /\ UNCHANGED << shared, pages >>

\* A step 5 whose response.json() and result.get() are not guarded: a body
\* that is no JSON object raises to solve_chain
SubmitJsonFatal(c) ==
    /\ pc[c] = "submit"
    /\ \E d \in Latencies, resp \in Responses :
        /\ Elapse(d)
        /\ response' = [response EXCEPT ![c] = resp]
        /\ IF resp.kind \in {"not_json", "not_object"}
           THEN /\ raised' = [raised EXCEPT ![c] = TRUE]
                /\ logs' = [logs EXCEPT ![c] = @ \cup {"error"}]
                /\ pc' = [pc EXCEPT ![c] = "after_loop"]
                /\ ClearLocals(c)
                /\ Settle(c)
                /\ post' = [post EXCEPT ![c] = NoPost]
                /\ UNCHANGED << inbound, solver, current_url,
                                question_count, next_url, time_logged >>
           ELSE Return(c, SubmitResult(resp), {})
        /\ UNCHANGED steps
    /\ UNCHANGED << shared, pages >>

\* Step 5 completes: the response arrives and its next URL is returned
\* through solve_single_quiz (line 99) to solve_chain.
SubmitDone(c) ==
    /\ pc[c] = "submit"
    /\ \E d \in Latencies, resp \in Responses :
        /\ Elapse(d)
        /\ response' = [response EXCEPT ![c] = resp]
        /\ Return(c, SubmitResult(resp), {})
        /\ UNCHANGED steps
    /\ UNCHANGED << shared, pages >>

\* After the loop (lines 63-66) solve_chain returns and solve_quiz_chain
\* logs its last message (main.py 81).
AfterLoop(c) ==
    /\ pc[c] = "after_loop"
    /\ logs' = [logs EXCEPT ![c] =
                   @ \cup (IF time_remaining(c) <= BUFFER_SECONDS
                           THEN {"timeout"} ELSE {})
                     \cup {"success"}]
    /\ pc' = [pc EXCEPT ![c] = "done"]
    /\ UNCHANGED << now, shared, inbound, solver, loop, locals, pages,
                    awaiting, steps, post, response >>

\* The steps of the chain of request c
Step(c) ==
    \/ SolveQuiz(c)
    \/ SolveQuizChain(c)
    \/ WhileTest(c)
    \/ PlaywrightStarted(c)
    \/ BrowserLaunched(c)
    \/ NewPage(c)
    \/ GotoDone(c)
    \/ EvaluateDone(c)
    \/ RenderDone(c)
    \/ AnalyzeDone(c)
    \/ SolveDirectDone(c)
    \/ FallbackDone(c)
    \/ SubmitDone(c)
    \/ AfterLoop(c)

Next == \E c \in Chains : Step(c)

Spec == Init /\ [][Next]_vars


\* ------------------------------------------------------------------------
\* Two requests served by one process
\* ------------------------------------------------------------------------

\* main.py 61: every accepted request adds its own background task to the
\* one event loop, so the chains of two requests interleave at their awaits
\* and share the module state of browser.py.
Clients == {1, 2}

InitTwo == InitOf(Clients)

\* The servers the two chains talk to: a page shows a text with a submit
\* URL or one without, the analysis carries no hint, the oracle replies
\* "7", the POST is answered with a next URL, and only the navigation
\* takes time, 85 seconds.
Plain(c) ==
    /\ now' = IF pc[c] = "render" /\ fetching[c] = "goto"
              THEN now + 85 ELSE now
    /\ req'[c].url # <<>>
    /\ body_text'[c] \in {NONE, T_post, T_nothing}
    /\ analysis'[c] \in {NoAnalysis, Analysis(FALSE, NONE)}
    /\ reply'[c] \in {NONE, << "7" >>}
    /\ \/ response'[c] = NoResponse
       \/ /\ response'[c].kind = "object"
          /\ response'[c].correct
          /\ response'[c].url = U_q2

\* A step of the chain of request c with these servers
PlainStep(c) ==
    \/ SolveQuiz(c) /\ Plain(c)
    \/ SolveQuizChain(c) /\ Plain(c)
    \/ WhileTest(c) /\ Plain(c)
    \/ PlaywrightStarted(c) /\ Plain(c)
    \/ BrowserLaunched(c) /\ Plain(c)
    \/ NewPage(c) /\ Plain(c)
    \/ GotoDone(c) /\ Plain(c)
    \/ EvaluateDone(c) /\ Plain(c)
    \/ RenderDone(c) /\ Plain(c)
    \/ AnalyzeDone(c) /\ Plain(c)
    \/ SolveDirectDone(c) /\ Plain(c)
    \/ FallbackDone(c) /\ Plain(c)
    \/ SubmitDone(c) /\ Plain(c)
    \/ AfterLoop(c) /\ Plain(c)

NextTwo == \E c \in Clients : PlainStep(c)

SpecTwo == InitTwo /\ [][NextTwo]_vars

\* ------------------------------------------------------------------------
\* A QuizSolver whose solve_chain is called again
\* ------------------------------------------------------------------------

\* solve_chain (solver.py 31-39) is called on an instance whose earlier
\* call has returned: the head of the method runs as in the first call.
SolveChainAgain(c) ==
    /\ pc[c] = "done"
    /\ start_time[c] # NoTime
    /\ EnterSolveChain(c, req[c].url)
    /\ UNCHANGED << now, shared, inbound, email, secret, time_logged, locals,
                    pages, awaiting, steps, post, response, logs >>

NextReuse == \E c \in Chains : PlainStep(c) \/ SolveChainAgain(c)

SpecReuse == Init /\ [][NextReuse]_vars

\* ------------------------------------------------------------------------
\* A chain whose calls all return and whose clock advances
\* ------------------------------------------------------------------------

\* The request arrives at time 0, and of the awaited calls the navigation
\* is the one that takes time: long enough for MaxQuestions navigations to
\* use up the time the loop allows, so that the loop is never stopped by
\* the bound on the questions of the model.
Timed(c) ==
    IF pc[c] = "render" /\ fetching[c] = "goto"
    THEN MaxQuestions * (now' - now) >= TIMEOUT_SECONDS - BUFFER_SECONDS
    ELSE now' = now

TimedStep(c) ==
    \/ SolveQuiz(c) /\ Timed(c)
    \/ SolveQuizChain(c) /\ Timed(c)
    \/ WhileTest(c) /\ Timed(c)
    \/ PlaywrightStarted(c) /\ Timed(c)
    \/ BrowserLaunched(c) /\ Timed(c)
    \/ NewPage(c) /\ Timed(c)
    \/ GotoDone(c) /\ Timed(c)
    \/ EvaluateDone(c) /\ Timed(c)
    \/ RenderDone(c) /\ Timed(c)
    \/ AnalyzeDone(c) /\ Timed(c)
    \/ SolveDirectDone(c) /\ Timed(c)
    \/ FallbackDone(c) /\ Timed(c)
    \/ SubmitDone(c) /\ Timed(c)
    \/ AfterLoop(c) /\ Timed(c)

NextLive == \E c \in Chains : TimedStep(c)

\* Every awaited call returns or fails, and the event loop resumes the
\* task that awaited it.
LiveSpec == Init /\ [][NextLive]_vars /\ WF_vars(NextLive)

\* ------------------------------------------------------------------------
\* extract_submit_url applied to the texts of a page
\* ------------------------------------------------------------------------

\* The first page of an accepted request has been rendered at once, with
\* any of the texts, and its analysis is awaited (solver.py 75-80).
InitExtract ==
    /\ now = 0
    /\ manager = TRUE
    /\ browser = 1
    /\ launched = 1
    /\ pc = [c \in Chains |-> "analyze"]
    /\ status = [c \in Chains |-> 200]
    /\ req = [c \in Chains |->
                [email |-> EMAIL, secret |-> SECRET, url |-> U_q1]]
    /\ email = [c \in Chains |-> EMAIL]
    /\ secret = [c \in Chains |-> SECRET]
    /\ start_time = [c \in Chains |-> 0]
    /\ current_url = [c \in Chains |-> U_q1]
    /\ question_count = [c \in Chains |-> 1]
    /\ next_url = [c \in Chains |-> NONE]
    /\ raised = [c \in Chains |-> FALSE]
    /\ time_logged = [c \in Chains |-> TIMEOUT_SECONDS]
    /\ quiz_url = [c \in Chains |-> U_q1]
    /\ question_text \in [Chains -> Texts \cup PunctuatedTexts]
    /\ analysis = [c \in Chains |-> NoAnalysis]
    /\ submit_url = [c \in Chains |-> NONE]
    /\ answer = [c \in Chains |-> NoAnswer]
    /\ fetching = [c \in Chains |-> "none"]
    /\ body_text = [c \in Chains |-> NONE]
    /\ reply = [c \in Chains |-> NONE]
    /\ pages = [c \in Chains |-> 0]
    /\ awaiting = [c \in Chains |-> {<< "analyze", 1 >>}]
    /\ steps = [c \in Chains |-> << "render", "analyze" >>]
    /\ post = [c \in Chains |-> NoPost]
    /\ response = [c \in Chains |-> NoResponse]
    /\ logs = [c \in Chains |-> {}]

\* The analysis arrives and step 3 resolves the submit URL.
NextExtract == \E c \in Chains : AnalyzeDone(c)

SpecExtract == InitExtract /\ [][NextExtract]_vars
\* ------------------------------------------------------------------------
\* Properties
\* ------------------------------------------------------------------------

\* What the clock leaves of the budget of chain c
Remaining(c) == TIMEOUT_SECONDS - (now - start_time[c])

\* The time chain c has run
Elapsed(c) == now - start_time[c]

\* The moment the last question of chain c was started, as the remaining
\* time logged then tells it
LastStarted(c) == start_time[c] + (TIMEOUT_SECONDS - time_logged[c])

\* Chain c is inside solve_single_quiz
InQuestion(c) == pc[c] \in {"render", "analyze", "solve", "fallback", "submit"}

\* solve_chain has left its loop
LoopLeft(c) == pc[c] \in {"after_loop", "done"}

\* C1: solve_single_quiz is never started when 10 seconds or less remain,
\* so when the loop is left after a question, the elapsed time is less
\* than (TIMEOUT_SECONDS - 10) plus the duration of that last question.
C1_StartOnlyWithTimeLeft ==
    [][\A c \in Chains :
        /\ question_count'[c] = question_count[c] + 1
              => /\ Remaining(c) > BUFFER_SECONDS
                 /\ Elapsed(c) < TIMEOUT_SECONDS - BUFFER_SECONDS
                 /\ time_logged'[c] = Remaining(c)
        /\ ~LoopLeft(c) /\ LoopLeft(c)' /\ question_count[c] > 0
              => (now' - start_time'[c]) <
                    (TIMEOUT_SECONDS - BUFFER_SECONDS)
                      + (now' - LastStarted(c))
      ]_vars

\* C1: the second question was started with 11 seconds left, and the loop
\* was left after the timeout had passed.
C1_Witness ==
    \E c \in Chains :
        /\ pc[c] = "after_loop"
        /\ question_count[c] = 2
        /\ time_logged[c] = BUFFER_SECONDS + 1
        /\ Elapsed(c) > TIMEOUT_SECONDS

\* In this step solve_single_quiz returns a value to solve_chain
Returns(c) == InQuestion(c) /\ ~InQuestion(c)' /\ ~raised'[c]

\* C2: a non-empty next URL that solve_single_quiz returned is, when time
\* remains, exactly the URL of the next question rendered; an absent or
\* empty one ends the loop, after which the chain renders, analyzes and
\* submits nothing.
C2_NextUrlFollowed ==
    [][\A c \in Chains :
        /\ Returns(c) /\ Truthy(next_url'[c])
              => /\ pc'[c] = "loop"
                 /\ current_url'[c] = next_url'[c]
        /\ pc[c] = "loop" /\ question_count[c] > 0 /\ pc'[c] # "loop"
              => /\ Truthy(next_url[c])
                 /\ IF Remaining(c) > BUFFER_SECONDS
                    THEN /\ pc'[c] = "render"
                         /\ steps'[c] = << "render" >>
                         /\ quiz_url'[c] = next_url[c]
                    ELSE pc'[c] = "after_loop"
        /\ Returns(c) /\ ~Truthy(next_url'[c])
              => pc'[c] = "after_loop"
        /\ LoopLeft(c)
              => /\ LoopLeft(c)'
                 /\ steps'[c] = steps[c]
                 /\ question_count'[c] = question_count[c]
                 /\ post'[c] = NoPost
      ]_vars

\* C2: the second question being rendered is the URL the first returned,
\* which is not the URL of the request.
C2_Witness ==
    \E c \in Chains :
        /\ pc[c] = "render"
        /\ question_count[c] = 2
        /\ next_url[c] = U_q2
        /\ quiz_url[c] = U_q2
        /\ req[c].url # U_q2

\* C3: an exception raised by solve_single_quiz ends the loop at once: the
\* question is not attempted again, no other question is started, and the
\* exception does not leave solve_chain.
C3_ExceptionEndsLoop ==
    [][\A c \in Chains :
        /\ raised'[c] /\ ~raised[c]
              => /\ InQuestion(c)
                 /\ pc'[c] = "after_loop"
                 /\ "error" \in logs'[c]
        /\ raised[c]
              => /\ LoopLeft(c)
                 /\ LoopLeft(c)'
                 /\ raised'[c]
                 /\ question_count'[c] = question_count[c]
                 /\ steps'[c] = steps[c]
                 /\ post'[c] = NoPost
                 /\ "chain_error" \notin logs'[c]
                 /\ pc'[c] = "done" => "success" \in logs'[c]
      ]_vars

\* C3: the first question raised while being analyzed and solve_chain has
\* returned.
C3_Witness ==
    \E c \in Chains :
        /\ raised[c]
        /\ pc[c] = "done"
        /\ question_count[c] = 1
        /\ steps[c] = << "render", "analyze" >>

\* The outcomes the messages logged for chain c tell of
LoggedOutcomes(c) ==
    (IF "timeout" \in logs[c] THEN {"timeout"} ELSE {})
      \cup (IF logs[c] \cap {"completed", "success"} # {}
            THEN {"completed"} ELSE {})
      \cup (IF logs[c] \cap {"error", "chain_error"} # {}
            THEN {"error"} ELSE {})

\* Why solve_chain left its loop: an exception, the test of the loop
\* failing on the time with a URL still to solve, or no URL to go on with
ExitCause(c) ==
    IF raised[c] THEN "error"
    ELSE IF Truthy(current_url[c]) /\ ~(question_count[c] > 0
                                         /\ ~Truthy(next_url[c]))
         THEN "timeout"
         ELSE "completed"

\* C4: the messages logged for a chain that has run tell exactly one
\* outcome, the one that made the loop end: timeout, completed or error.
C4_OneOutcomeLogged ==
    \A c \in Chains :
        pc[c] = "done" /\ start_time[c] # NoTime
            => LoggedOutcomes(c) = {ExitCause(c)}

\* The order of the steps of solve_single_quiz
StepOrder == << "render", "analyze", "resolve", "solve", "submit" >>

\* C5: the steps of a question are started in the order render, analyze,
\* resolve, solve, submit, each with what the steps before it produced;
\* a POST is in flight only in the one submit step, for the resolved URL
\* and the answer of that question.
C5_StepsInOrder ==
    \A c \in Chains :
        /\ \E n \in 0..Len(StepOrder) : steps[c] = SubSeq(StepOrder, 1, n)
        /\ pc[c] = "render"
              => /\ steps[c] = SubSeq(StepOrder, 1, 1)
                 /\ question_text[c] = NONE
        /\ pc[c] = "analyze"
              => /\ steps[c] = SubSeq(StepOrder, 1, 2)
                 /\ question_text[c] # NONE
                 /\ analysis[c] = NoAnalysis
                 /\ submit_url[c] = NONE
        /\ pc[c] \in {"solve", "fallback"}
              => /\ steps[c] = SubSeq(StepOrder, 1, 4)
                 /\ question_text[c] # NONE
                 /\ analysis[c] # NoAnalysis
                 /\ Truthy(submit_url[c])
                 /\ answer[c] = NoAnswer
        /\ pc[c] = "submit"
              => /\ steps[c] = StepOrder
                 /\ Truthy(submit_url[c])
                 /\ answer[c] # NoAnswer
                 /\ post[c].target = submit_url[c]
                 /\ post[c].answer = answer[c]
        /\ post[c] # NoPost <=> pc[c] = "submit"

\* C5: the POST of the second question is in flight.
C5_Witness ==
    \E c \in Chains :
        /\ pc[c] = "submit"
        /\ question_count[c] = 2
        /\ steps[c] = StepOrder
        /\ post[c] # NoPost

\* The analysis carries a submit URL (solver.py 105)
HasHint(a) == a.has_submit_url /\ Truthy(a.submit_url)

\* C6: when the analysis has no hint and the text matches no pattern,
\* solve_single_quiz returns None without raising, with no solve call and
\* no POST, and solve_chain ends the chain as completed, not as an error.
C6_NoSubmitUrlEndsChain ==
    [][\A c \in Chains :
        /\ pc[c] = "analyze" /\ pc'[c] # "analyze" /\ ~raised'[c]
           /\ TextSubmitUrl(question_text[c], quiz_url[c]) = NONE
           /\ ~HasHint(analysis'[c])
              => /\ next_url'[c] = NONE
                 /\ pc'[c] = "after_loop"
                 /\ steps'[c] = SubSeq(StepOrder, 1, 3)
                 /\ post'[c] = NoPost
                 /\ "completed" \in logs'[c]
                 /\ "error" \notin logs'[c]
        /\ "no_submit_url" \in logs[c]
              => /\ LoopLeft(c)'
                 /\ steps'[c] = steps[c]
                 /\ post'[c] = NoPost
                 /\ ~raised'[c]
                 /\ "error" \notin logs'[c]
      ]_vars

\* C6: the first question had no submit URL and the chain has ended
\* without an exception.
C6_Witness ==
    \E c \in Chains :
        /\ pc[c] = "done"
        /\ question_count[c] = 1
        /\ steps[c] = SubSeq(StepOrder, 1, 3)
        /\ "no_submit_url" \in logs[c]
        /\ "completed" \in logs[c]
        /\ ~raised[c]

\* C7: for a 2xx response that is a JSON object, the url field is what
\* submit_answer and solve_single_quiz return, whatever the correct flag
\* is, and with a non-empty url the chain goes on with it.
C7_UrlWhateverCorrect ==
    [][\A c \in Chains :
        pc[c] = "submit" /\ pc'[c] # "submit"
          /\ response'[c].kind = "object"
            => /\ ~raised'[c]
               /\ next_url'[c] = (IF response'[c].has_url
                                  THEN response'[c].url ELSE NONE)
               /\ response'[c].has_url /\ Truthy(response'[c].url)
                     => /\ pc'[c] = "loop"
                        /\ current_url'[c] = response'[c].url
      ]_vars

\* C7: the first answer was not correct, and the url of its response is
\* the second question being rendered.
C7_Witness ==
    \E c \in Chains :
        /\ response[c].kind = "object"
        /\ ~response[c].correct
        /\ response[c].url = U_q2
        /\ pc[c] = "render"
        /\ question_count[c] = 2
        /\ quiz_url[c] = U_q2

\* C8: after a submission that failed with a non-2xx status or a network
\* error, None was returned: the loop is left without the except clause
\* being entered, and the chain ends as completed.
C8_FailedSubmissionReturnsNone ==
    \A c \in Chains :
        response[c].kind \in {"http_error", "network_error"}
            => /\ LoopLeft(c)
               /\ next_url[c] = NONE
               /\ ~raised[c]
               /\ "error" \notin logs[c]
               /\ "completed" \in logs[c]

\* C8: the submission of the second question met a network error and the
\* chain has ended.
C8_Witness ==
    \E c \in Chains :
        /\ response[c].kind = "network_error"
        /\ question_count[c] = 2
        /\ pc[c] = "done"
        /\ ~raised[c]

\* The answers solve_question can produce
Answers == { coerce_answer(text) : text \in Replies } \cup {StrAnswer(UNABLE)}

\* C9: the POST in flight carries the email and the secret the QuizSolver
\* was constructed with, the URL of the question being solved as url, and
\* the answer solve_question produced for it; it is sent to the submit
\* URL resolved for that question.
C9_PostBody ==
    \A c \in Chains :
        /\ start_time[c] # NoTime
              => /\ email[c] = req[c].email
                 /\ secret[c] = req[c].secret
        /\ post[c] # NoPost
              => /\ post[c].email = req[c].email
                 /\ post[c].secret = req[c].secret
                 /\ post[c].url = quiz_url[c]
                 /\ post[c].url = current_url[c]
                 /\ post[c].url = (IF question_count[c] = 1
                                   THEN req[c].url ELSE next_url[c])
                 /\ post[c].answer = answer[c]
                 /\ post[c].answer \in Answers
                 /\ post[c].target = submit_url[c]
                 /\ post[c].target =
                       extract_submit_url(question_text[c], analysis[c],
                                          quiz_url[c])

\* C9: the POST of the second question: its url is that question's URL,
\* which is neither the URL posted to nor the URL of the first question.
C9_Witness ==
    \E c \in Chains :
        /\ post[c] # NoPost
        /\ question_count[c] = 2
        /\ post[c].url = U_q2
        /\ req[c].url = U_q1
        /\ post[c].target \notin {U_q1, U_q2}
        /\ post[c].answer = IntAnswer(7)

\* An absolute URL starts with a scheme and a colon
IsAbsoluteUrl(url) == HasScheme(url)

\* C10: with a non-empty hint in the analysis, the submit URL is the hint
\* itself when the hint is an absolute URL, and otherwise the hint resolved
\* as a relative reference against the URL of the question.
C10_HintDecides ==
    \A c \in Chains :
        pc[c] \in {"solve", "fallback", "submit"} /\ HasHint(analysis[c])
            => submit_url[c] =
                  (IF IsAbsoluteUrl(analysis[c].submit_url)
                   THEN analysis[c].submit_url
                   ELSE urljoin(quiz_url[c], analysis[c].submit_url))

\* The results of the five text matchers in their order, NONE for a
\* matcher that does not match
Matchers(text, current) ==
    << Trimmed(PostToUrl(text), NONE),
       Trimmed(SubmitSubmitUrl(text), NONE),
       Trimmed(PostUrl(text), NONE),
       Trimmed(FirstSubmitUrl(findall_urls(text, 1)), NONE),
       Joined(RelativeTo(text), current) >>

\* The matchers of ms that match
Matching(ms) == { k \in DOMAIN ms : ms[k] # NONE }

\* The result of the first matcher of ms that matches, NONE when none does
FirstMatch(ms) ==
    IF Matching(ms) = {} THEN NONE ELSE ms[Least(Matching(ms))]

\* The matchers' results for every page text and every URL of a question
MatcherTable ==
    [text \in Texts, current \in {U_q1, U_q2} |-> Matchers(text, current)]

\* C11: without a hint the submit URL is the result of the first of the
\* five matchers, in their order, that matches the text, and
\* solve_single_quiz finds no submit URL only when none of them matches.
C11_FirstMatcherDecides ==
    [][\A c \in Chains :
        pc[c] = "analyze" /\ pc'[c] # "analyze" /\ ~raised'[c]
            => \/ pc'[c] = "solve" /\ HasHint(analysis'[c])
               \/ \E ms \in {MatcherTable[question_text[c], quiz_url[c]]} :
                     IF pc'[c] = "solve"
                     THEN /\ Matching(ms) # {}
                          /\ submit_url'[c] = FirstMatch(ms)
                     ELSE /\ "no_submit_url" \in logs'[c]
                          /\ Matching(ms) = {}
      ]_vars

\* C11: a text that the first and the third matcher match with different
\* URLs was resolved to the URL of the first.
C11_Witness ==
    \E c \in Chains :
        /\ pc[c] = "solve"
        /\ question_text[c] = T_post_twice
        /\ ~HasHint(analysis[c])
        /\ Trimmed(PostUrl(T_post_twice), NONE) # submit_url[c]
        /\ submit_url[c] = Trimmed(PostToUrl(T_post_twice), NONE)

\* C12: solve_question starts with the direct call whatever the task type
\* of the analysis; the fallback is called only when the direct call has
\* raised; a fallback call that succeeds gives the answer "Unable to solve
\* automatically"; and solve_question raises only when the fallback call
\* has raised too.
C12_DirectThenFallback ==
    [][\A c \in Chains :
        /\ pc'[c] = "solve" /\ pc[c] # "solve"
              => /\ pc[c] = "analyze"
                 /\ awaiting'[c] = {<< "solve", question_count[c] >>}
        /\ pc[c] = "solve" /\ pc'[c] # "solve"
              => /\ ~raised'[c]
                 /\ \/ /\ pc'[c] = "submit"
                       /\ reply'[c] # NONE
                    \/ /\ pc'[c] = "fallback"
                       /\ reply'[c] = NONE
                       /\ awaiting'[c] = {<< "fallback", question_count[c] >>}
        /\ pc'[c] = "fallback" /\ pc[c] # "fallback"
              => pc[c] = "solve"
        /\ pc[c] = "fallback" /\ pc'[c] # "fallback"
              => \/ /\ pc'[c] = "submit"
                    /\ answer'[c] = StrAnswer(UNABLE)
                    /\ post'[c].answer = StrAnswer(UNABLE)
                 \/ /\ raised'[c]
                    /\ pc'[c] = "after_loop"
      ]_vars

\* C12: for an analysis of task type data_analysis the direct call raised
\* and the answer of the fallback is being submitted.
C12_Witness ==
    \E c \in Chains :
        /\ pc[c] = "submit"
        /\ analysis[c].task_type = "data_analysis"
        /\ reply[c] = NONE
        /\ answer[c] = StrAnswer(UNABLE)

\* C13: the answer of the direct call is the integer when the stripped
\* reply parses as an integer, otherwise the float when it parses as a
\* float, otherwise the stripped reply itself: "7" and " 42\n" give
\* integers, "3.14" a float, "Paris" the string.
C13_IntegerThenFloatThenString ==
    \A c \in Chains :
        pc[c] = "submit" /\ reply[c] # NONE
            => /\ IsIntLiteral(strip(reply[c]))
                    => /\ answer[c].type = "int"
                       /\ answer[c].num = IntValue(strip(reply[c]))
               /\ ~IsIntLiteral(strip(reply[c]))
                  /\ IsFloatLiteral(strip(reply[c]))
                    => /\ answer[c].type = "float"
                       /\ answer[c] = FloatAnswer(reply[c])
               /\ ~IsIntLiteral(strip(reply[c]))
                  /\ ~IsFloatLiteral(strip(reply[c]))
                    => /\ answer[c].type = "str"
                       /\ answer[c].str = strip(reply[c])
               /\ reply[c] = << "7" >> => answer[c] = IntAnswer(7)
               /\ reply[c] = << " ", "4", "2", "\n" >>
                    => answer[c] = IntAnswer(42)
               /\ reply[c] = << "3", ".", "1", "4" >>
                    => /\ answer[c].type = "float"
                       /\ answer[c].num = 314
                       /\ answer[c].exp = -2
               /\ reply[c] = << "P", "a", "r", "i", "s" >>
                    => answer[c] = StrAnswer(reply[c])
               /\ post[c].answer = answer[c]

\* C13: the reply " 42\n" is being submitted as the integer 42.
C13_Witness ==
    \E c \in Chains :
        /\ pc[c] = "submit"
        /\ reply[c] = << " ", "4", "2", "\n" >>
        /\ answer[c] = IntAnswer(42)
        /\ post[c].answer.type = "int"

\* C14: a chain is dispatched only for a request whose secret and email
\* both equal the configured values.  A request with a wrong secret or a
\* wrong email is answered 403 and nothing of a chain exists for it,
\* whatever the other request has done before or does meanwhile.
C14_BothCredentialsOrRejected ==
    \A c \in DOMAIN pc :
        /\ pc[c] = "idle" <=> status[c] = 0
        /\ pc[c] \notin {"idle", "rejected"}
            => /\ req[c].secret = SECRET
               /\ req[c].email = EMAIL
               /\ status[c] = 200
        /\ pc[c] # "idle" /\ (req[c].secret # SECRET \/ req[c].email # EMAIL)
            => /\ status[c] = 403
               /\ pc[c] = "rejected"
               /\ start_time[c] = NoTime
               /\ email[c] = "" /\ secret[c] = ""
               /\ current_url[c] = NONE
               /\ question_count[c] = 0
               /\ steps[c] = << >>
               /\ awaiting[c] = {}
               /\ logs[c] = {}

\* C14: a request with the right secret and a wrong email has been
\* rejected while the chain of the other request is posting an answer.
C14_Witness ==
    \E c \in DOMAIN pc, d \in DOMAIN pc :
        /\ c # d
        /\ pc[c] = "rejected"
        /\ status[c] = 403
        /\ req[c].secret = SECRET
        /\ req[c].email # EMAIL
        /\ pc[d] = "submit"
        /\ status[d] = 200

\* C15: an accepted request is answered 200 before its chain runs and the
\* answer never changes afterwards; its task enters solve_chain once or
\* logs the failure of the constructor, every chain that ends has been
\* answered 200 and ends inside solve_quiz_chain with a logged message, and
\* a request that has not arrived yet can be taken whatever the other
\* chain has come to.
C15_AcceptedWhateverOutcome ==
    [][\A c \in DOMAIN pc :
        /\ status[c] # 0 => status'[c] = status[c]
        /\ pc[c] = "queued"
            => /\ status[c] = 200
               /\ pc'[c] \in {"queued", "loop", "done"}
               /\ pc'[c] = "done" => "chain_error" \in logs'[c]
        /\ start_time'[c] # start_time[c] => pc[c] = "queued"
        /\ pc'[c] = "queued" => pc[c] \in {"idle", "queued"}
        /\ pc[c] = "after_loop" => pc'[c] \in {"after_loop", "done"}
        /\ pc'[c] = "done"
            => /\ status'[c] = 200
               /\ pc[c] \in {"queued", "after_loop", "done"}
               /\ "success" \in logs'[c] \/ "chain_error" \in logs'[c]
        /\ pc'[c] \in {"idle", "rejected", "queued", "loop", "render",
                       "analyze", "solve", "fallback", "submit",
                       "after_loop", "done"}
        /\ pc'[c] = "idle" => ENABLED SolveQuiz(c)
      ]_vars

\* C15: both requests were answered 200; the task of one ended on the
\* exception of the constructor, the chain of the other ran out of time.
C15_Witness ==
    \E c \in DOMAIN pc, d \in DOMAIN pc :
        /\ pc[c] = "done" /\ status[c] = 200
        /\ "chain_error" \in logs[c]
        /\ pc[d] = "done" /\ status[d] = 200
        /\ "timeout" \in logs[d]
        /\ "success" \in logs[d]

\* C17: whatever the interleaving of the chains that render pages, at most
\* one browser process is ever launched, and a browser once launched is
\* the one every later render uses.
C17_OneBrowserLaunched ==
    /\ launched <= 1
    /\ browser \in {0, 1}

\* C18: a chain holds an open page only between the opening of the page
\* and the completion of page.close() inside fetch_page_content; once
\* fetch_page_content has returned or raised, whatever the path, the chain
\* has no open page, and a browser once launched is never closed.
C18_PageClosedOnEveryPath ==
    \A c \in Chains :
        /\ pages[c] \in {0, 1}
        /\ pages[c] = 1
            <=> /\ pc[c] = "render"
                /\ fetching[c] \in {"goto", "evaluate", "close"}
        /\ fetching[c] = "none" => pages[c] = 0
        /\ pc[c] # "render" => fetching[c] = "none"
        /\ launched > 0 => browser # 0

\* C18: the second page of a chain has been rendered and closed, and the
\* browser launched for the first page is still running.
C18_Witness ==
    \E c \in Chains :
        /\ pc[c] = "analyze"
        /\ question_count[c] = 2
        /\ pages[c] = 0
        /\ launched = 1
        /\ browser = 1

\* C19: a chain awaits at most one external operation at a time, the one
\* its current question has reached, and awaits none between questions
\* and after the loop: when solve_chain has returned nothing it started is
\* outstanding, neither an operation nor a POST nor an open page.
C19_OneOperationInFlight ==
    \A c \in Chains :
        /\ Cardinality(awaiting[c]) <= 1
        /\ InQuestion(c) => awaiting[c] = {Awaited(c)}
        /\ ~InQuestion(c) => awaiting[c] = {}
        /\ \A op \in awaiting[c] : op[2] = question_count[c]
        /\ post[c] # NoPost => pc[c] = "submit"
        /\ LoopLeft(c)
            => /\ awaiting[c] = {}
               /\ post[c] = NoPost
               /\ pages[c] = 0
               /\ fetching[c] = "none"

\* C19: solve_chain has returned after an exception in its second
\* question, and nothing is outstanding.
C19_Witness ==
    \E c \in Chains :
        /\ pc[c] = "done"
        /\ raised[c]
        /\ question_count[c] = 2
        /\ awaiting[c] = {}
        /\ post[c] = NoPost

\* C16: the start time of a QuizSolver, once set, is never changed again,
\* not even by a further call of solve_chain.
C16_StartTimeSetOnce ==
    [][\A c \in Chains :
        start_time[c] # NoTime => start_time'[c] = start_time[c]]_vars

\* C20: when every call returns or fails and the clock advances, a chain
\* that has been dispatched ends, whatever the servers answer: a next URL
\* after every question, or the URL of a question already solved.
C20_ChainTerminates ==
    \A c \in Chains : (pc[c] = "queued") ~> (pc[c] = "done")

\* C20: a chain sent back to its first URL after every question has ended
\* by the time check alone, without an exception.
C20_Witness ==
    \E c \in Chains :
        /\ pc[c] = "done"
        /\ ~raised[c]
        /\ question_count[c] >= 2
        /\ req[c].url = U_q1
        /\ next_url[c] = U_q1
        /\ current_url[c] = U_q1
        /\ "timeout" \in logs[c]
        /\ "completed" \notin logs[c]

\* C21: a submit URL taken from the text, without a hint, ends in none of
\* '.', ',', ';' and ':', and for "POST to https://x/submit." it is
\* exactly https://x/submit.
C21_TrailingPunctuationRemoved ==
    \A c \in Chains :
        pc[c] = "solve" /\ ~HasHint(analysis[c])
            => /\ submit_url[c][Len(submit_url[c])] \notin TrailingPunct
               /\ question_text[c] = T_punct_post_to
                    => submit_url[c] =
                          SubSeq(T_punct_post_to, 9, Len(T_punct_post_to) - 1)

\* C22: the completion of the POST never raises, whatever the response.
\* A 2xx response whose body is not JSON, or is JSON but no object, makes
\* submit_answer return None: the loop is left as for an absent next URL,
\* "completed" is logged and no error.  An exception of the analysis call
\* is fatal: the except clause logs the error and ends the loop.
C22_MalformedResponseNotFatal ==
    [][\A c \in Chains :
        /\ pc[c] = "submit" /\ pc'[c] # "submit"
            => /\ ~raised'[c]
               /\ "error" \notin logs'[c]
               /\ response'[c].kind \in {"not_json", "not_object"}
                    => /\ next_url'[c] = NONE
                       /\ current_url'[c] = current_url[c]
                       /\ pc'[c] = "after_loop"
                       /\ "completed" \in logs'[c]
        /\ pc[c] = "analyze" /\ raised'[c]
            => /\ pc'[c] = "after_loop"
               /\ "error" \in logs'[c]
               /\ "completed" \notin logs'[c]
      ]_vars

\* C22: the chain has ended after a 2xx response that is no JSON to its
\* second answer: nothing was raised, and the chain is logged as completed.
C22_Witness ==
    \E c \in Chains :
        /\ pc[c] = "done"
        /\ question_count[c] = 2
        /\ response[c].kind = "not_json"
        /\ next_url[c] = NONE
        /\ ~raised[c]
        /\ "completed" \in logs[c]
        /\ "error" \notin logs[c]

\* What belongs to the request c, to its QuizSolver and to its chain
Own(c) ==
    << pc[c], status[c], req[c], email[c], secret[c], start_time[c],
       current_url[c], question_count[c], next_url[c], raised[c],
       time_logged[c], quiz_url[c], question_text[c], analysis[c],
       submit_url[c], answer[c], fetching[c], body_text[c], reply[c],
       pages[c], awaiting[c], steps[c], post[c], response[c], logs[c] >>

\* C23: a step of one chain, whether it sets its start time, follows a
\* URL, posts, runs out of time or ends on an exception, changes nothing
\* that belongs to the other chain: its start time, from which alone its
\* remaining time is counted, its URLs, its POST, its logs and where it
\* stands.  Every POST of a chain carries the credentials and the question
\* URL of its own solver.
C23_ChainsDoNotInterfere ==
    [][\A c \in DOMAIN pc, d \in DOMAIN pc :
        /\ c # d /\ Own(c)' # Own(c)
            => /\ Own(d)' = Own(d)
               /\ start_time[d] # NoTime
                    => time_remaining(d)' = time_remaining(d) - (now' - now)
        /\ post'[c] # NoPost
            => /\ post'[c].email = email'[c]
               /\ post'[c].secret = secret'[c]
               /\ post'[c].url = quiz_url'[c]
               /\ post'[c].url = current_url'[c]
      ]_vars

\* C23: one chain has ended on an exception in its first question while
\* the other, started later, is posting the answer to its second question.
C23_Witness ==
    \E c \in DOMAIN pc, d \in DOMAIN pc :
        /\ pc[c] = "done" /\ raised[c]
        /\ question_count[c] = 1
        /\ current_url[c] = U_q1
        /\ pc[d] = "submit"
        /\ question_count[d] = 2
        /\ current_url[d] = U_q2
        /\ post[d].url = U_q2
        /\ start_time[d] > start_time[c]
        /\ start_time[c] # NoTime

====
